---- MODULE Spec2Model ----
(***************************************************************************)
(* Model of scripts/run_clangformat.py: the "format" and "verify" custom   *)
(* targets, the clang-format installer and the project file collector.     *)
(*                                                                         *)
(* A path is a sequence of components (<<"src", "lib", "a.c">>), so that   *)
(* os.path.join and os.path.basename are modelled by what they do.  A file *)
(* name is a string and the extension test is a real suffix comparison.    *)
(* The content of a file is abstracted to whether clang-format would       *)
(* change it (needsFormat).                                                *)
(***************************************************************************)
EXTENDS Integers, Sequences, FiniteSets, TLC

VARIABLES
    env,          \* the build environment: PROJECT_SRC_DIR, PROJECT_INCLUDE_DIR
    fs,           \* directory -> names of the regular files directly in it
    needsFormat,  \* paths of the files whose content is not canonically formatted
    pc,           \* position of the running target callback
    mode,         \* the target being run: "format" or "verify"
    installed,    \* install_clang_format returned normally in this run
    files,        \* the local `files` of the callback
    idx,          \* position of the for loop in `files`
    error_count,  \* verify_callback's error_count
    exit,         \* exit status of the run (meaningful when pc = "Done")
    out,          \* lines printed by this run
    cmds,         \* external commands completed in this run, in order
    running,      \* external commands started and not yet returned
    hist,         \* summaries of the (at most two) previous runs
    results       \* results of bare get_project_files calls (SpecCollect)

vars == <<env, fs, needsFormat, pc, mode, installed, files, idx, error_count,
          exit, out, cmds, running, hist, results>>

----------------------------------------------------------------------------
(* Bounds *)

\* Regular files in the project tree.
MaxFiles == 2

\* Bare collector calls recorded in SpecCollect.
MaxCalls == 2

----------------------------------------------------------------------------
(* The project tree and the configuration *)

\* An unset option: env.get(...) returns None.
None == <<>>

\* The directories that exist.  <<"src", "lib">> is nested inside <<"src">>.
Dirs == {<<"src">>, <<"src", "lib">>, <<"include">>}

\* Values of PROJECT_SRC_DIR: unset, an existing directory, a missing one.
SrcDirChoices == {None, <<"src">>, <<"missing">>}

\* Values of PROJECT_INCLUDE_DIR: unset, equal to the source root, nested
\* inside it, or a directory of its own.
IncludeDirChoices == {None, <<"src">>, <<"src", "lib">>, <<"include">>}

\* File names of the collector's input space: one per recognised extension
\* and names that must not match (other suffix, upper case, no dot, a
\* recognised extension in the middle).
FileNames ==
    {"a.c", "b.cpp", "c.h", "d.hpp", "e.cc", "f.cxx", "g.hxx", "h.hh",
     "n.py", "u.C", "v.HPP", "hh", "x.c.txt", "y.cp"}

\* File names of the trees the targets are run on.
RunFileNames == {"a.cpp", "n.py"}

\* The subsets of S with at most n elements.
RECURSIVE SmallSubsets(_, _)
SmallSubsets(S, n) ==
    IF n = 0 THEN {{}}
    ELSE LET smaller == SmallSubsets(S, n - 1)
         IN  smaller \cup {s \cup {x} : <<s, x>> \in smaller \X S}

\* All trees with at most n regular files named from `names`.
Trees(names, n) ==
    {[d \in Dirs |-> {nm \in names : <<d, nm>> \in s}] : s \in SmallSubsets(Dirs \X names, n)}

\* os.path.join(root, file)
join(root, file) == Append(root, file)

\* os.path.basename(file)
basename(file) == file[Len(file)]

\* os.path.exists(folder)
exists(folder) ==
    \/ folder \in Dirs
    \/ /\ Len(folder) > 1
       /\ SubSeq(folder, 1, Len(folder) - 1) \in Dirs
       /\ basename(folder) \in fs[SubSeq(folder, 1, Len(folder) - 1)]

\* Every regular file of the tree, by path.
AllFiles == {join(d, nm) : <<d, nm>> \in {x \in Dirs \X UNION {fs[d] : d \in Dirs} : x[2] \in fs[x[1]]}}

----------------------------------------------------------------------------
(* get_project_files *)

valid_extensions == <<".c", ".cpp", ".h", ".hpp", ".cc", ".cxx", ".hxx", ".hh">>

\* str.endswith(tuple): some element of the tuple is a suffix of the name.
endswith(file, suffixes) ==
    \E i \in DOMAIN suffixes :
        /\ Len(file) >= Len(suffixes[i])
        /\ SubSeq(file, Len(file) - Len(suffixes[i]) + 1, Len(file)) = suffixes[i]

\* The names of the sub-directories of d.
SubDirNames(d) == {e[Len(e)] : e \in {x \in Dirs : Len(x) = Len(d) + 1 /\ SubSeq(x, 1, Len(d)) = d}}

\* The entries os.scandir finds in directory d.
Entries(d) == fs[d] \cup SubDirNames(d)

\* All enumerations of a finite set.
Perms(S) == {p \in [1..Cardinality(S) -> S] : \A i, j \in DOMAIN p : p[i] = p[j] => i = j}

\* The orders in which one walk may see the entries of each directory:
\* os.scandir yields them in arbitrary (filesystem) order.
ScanOrders ==
    {o \in [Dirs -> UNION {Perms(Entries(d)) : d \in Dirs}] :
        \A d \in Dirs : o[d] \in Perms(Entries(d))}

RECURSIVE Concat(_)
Concat(ss) == IF ss = <<>> THEN <<>> ELSE Head(ss) \o Concat(Tail(ss))

IsDir(top, e) == join(top, e) \in Dirs

RECURSIVE SelectDirs(_, _)
SelectDirs(top, es) ==
    IF es = <<>> THEN <<>>
    ELSE (IF IsDir(top, Head(es)) THEN <<Head(es)>> ELSE <<>>) \o SelectDirs(top, Tail(es))

RECURSIVE SelectFiles(_, _)
SelectFiles(top, es) ==
    IF es = <<>> THEN <<>>
    ELSE (IF IsDir(top, Head(es)) THEN <<>> ELSE <<Head(es)>>) \o SelectFiles(top, Tail(es))

\* os.walk(top), top-down: the triple of top, then the walks of its
\* sub-directories in the order scandir gave them.  A top that is not a
\* directory yields nothing.
RECURSIVE walk(_, _)
walk(top, order) ==
    IF top \notin Dirs THEN <<>>
    ELSE LET dirs == SelectDirs(top, order[top])
         IN  <<[root |-> top, dirs |-> dirs, files |-> SelectFiles(top, order[top])]>>
             \o Concat([i \in 1..Len(dirs) |-> walk(join(top, dirs[i]), order)])

\* The inner loop: the matching files of one directory, joined to its root.
RECURSIVE MatchingFiles(_, _)
MatchingFiles(root, fileNames) ==
    IF fileNames = <<>> THEN <<>>
    ELSE (IF endswith(Head(fileNames), valid_extensions)
          THEN <<join(root, Head(fileNames))>> ELSE <<>>)
         \o MatchingFiles(root, Tail(fileNames))

\* The body of `for folder in check_folders` for one folder.
ScanFolder(folder, order) ==
    IF folder = None \/ ~exists(folder) THEN <<>>
    ELSE LET w == walk(folder, order)
         IN  Concat([i \in 1..Len(w) |-> MatchingFiles(w[i].root, w[i].files)])

get_project_files(e, order) ==
    LET check_folders == <<e.PROJECT_SRC_DIR, e.PROJECT_INCLUDE_DIR>>
    IN  Concat([i \in 1..Len(check_folders) |-> ScanFolder(check_folders[i], order)])

----------------------------------------------------------------------------
(* The collector alone: SpecCollect *)

InitCollect ==
    /\ env \in [PROJECT_SRC_DIR : SrcDirChoices, PROJECT_INCLUDE_DIR : IncludeDirChoices]
    /\ fs \in Trees(FileNames, MaxFiles)
    /\ needsFormat = {}
    /\ pc = "Start"
    /\ mode = "format"
    /\ installed = FALSE
    /\ files = <<>>
    /\ idx = 1
    /\ error_count = 0
    /\ exit = 0
    /\ out = <<>>
    /\ cmds = <<>>
    /\ running = {}
    /\ hist = <<>>
    /\ results = <<>>

\* One call of get_project_files(env) on the unchanged tree.
CollectCall ==
    /\ Len(results) < MaxCalls
    /\ \E order \in ScanOrders :
          results' = Append(results, get_project_files(env, order))
    /\ UNCHANGED <<env, fs, needsFormat, pc, mode, installed, files, idx,
                   error_count, exit, out, cmds, running, hist>>

NextCollect == CollectCall

SpecCollect == InitCollect /\ [][NextCollect]_vars

----------------------------------------------------------------------------
(* The external tools *)

\* subprocess.check_call([sys.executable, "-m", "pip", "install", ...]):
\* returns on status 0, raises CalledProcessError on any other status.
PipStatuses == {0, 1}

\* env.Execute('clang-format -i "<file>"') returns the command's status.
\* On status 0 the file has been rewritten in canonical form; on any other
\* status the file is left as it was.
ExecuteStatuses == {0, 1}

ContentAfterInPlace(file, rc) ==
    IF rc = 0 THEN needsFormat \ {file} ELSE needsFormat

\* subprocess.run(["clang-format", "-n", "--Werror", file]).returncode:
\* non-zero if formatting is needed.  The dry run writes nothing.
DryRunStatus(file) == IF file \in needsFormat THEN 1 ELSE 0

Cmd(kind, file, rc) == [kind |-> kind, file |-> file, rc |-> rc]

Proc(kind, file) == [kind |-> kind, file |-> file]

----------------------------------------------------------------------------
(* The targets: Spec *)

Init ==
    /\ env \in [PROJECT_SRC_DIR : SrcDirChoices, PROJECT_INCLUDE_DIR : IncludeDirChoices]
    /\ fs \in Trees(RunFileNames, MaxFiles)
    /\ needsFormat \in SUBSET {f \in AllFiles : endswith(basename(f), valid_extensions)}
    /\ pc = "Start"
    /\ mode = "format"
    /\ installed = FALSE
    /\ files = <<>>
    /\ idx = 1
    /\ error_count = 0
    /\ exit = 0
    /\ out = <<>>
    /\ cmds = <<>>
    /\ running = {}
    /\ hist = <<>>
    /\ results = <<>>

\* What is remembered of a finished run: of a format run whether it was
\* installed, whether every command returned 0 and the contents it left; of
\* any other run only its mode.
Summary ==
    IF mode = "format" /\ installed
    THEN [mode      |-> mode,
          installed |-> TRUE,
          allZero   |-> \A i \in DOMAIN cmds : cmds[i].rc = 0,
          after     |-> needsFormat]
    ELSE [mode |-> mode, installed |-> FALSE, allZero |-> FALSE, after |-> {}]

Remember(h, s) == IF Len(h) < 2 THEN Append(h, s) ELSE <<h[2], s>>

\* RunTarget with the call of install_clang_format() left out.
RunTarget_NoInstall(m) ==
    /\ pc \in {"Start", "Done"}
    /\ hist' = IF pc = "Done" THEN Remember(hist, Summary) ELSE hist
    /\ mode' = m
    /\ pc' = "Collecting"
    /\ installed' = FALSE
    /\ files' = <<>>
    /\ idx' = 1
    /\ error_count' = 0
    /\ exit' = 0
    /\ out' = <<>>
    /\ cmds' = <<>>
    /\ running' = {}
    /\ UNCHANGED <<env, fs, needsFormat, results>>

\* The build tool runs a registered target: the callback is entered and
\* calls install_clang_format(), which prints and starts pip.
RunTarget(m) ==
    /\ pc \in {"Start", "Done"}
    /\ hist' = IF pc = "Done" THEN Remember(hist, Summary) ELSE hist
    /\ mode' = m
    /\ pc' = "Installing"
    /\ installed' = FALSE
    /\ files' = <<>>
    /\ idx' = 1
    /\ error_count' = 0
    /\ exit' = 0
    /\ out' = << <<"Checking for clang-format...">> >>
    /\ cmds' = <<>>
    /\ running' = {Proc("pip", None)}
    /\ UNCHANGED <<env, fs, needsFormat, results>>

FormatTarget == RunTarget("format")

VerifyTarget == RunTarget("verify")

\* pip returned 0: install_clang_format returns to the callback.
InstallReturn ==
    /\ pc = "Installing"
    /\ installed' = TRUE
    /\ cmds' = Append(cmds, Cmd("pip", None, 0))
    /\ running' = {}
    /\ pc' = "Collecting"
    /\ UNCHANGED <<env, fs, needsFormat, mode, files, idx, error_count, exit,
                   out, hist, results>>

\* InstallFail with env.Exit(1) left out: the diagnostic, then the callback
\* goes on.
InstallFail_NoExit ==
    /\ pc = "Installing"
    /\ \E rc \in PipStatuses \ {0} : cmds' = Append(cmds, Cmd("pip", None, rc))
    /\ running' = {}
    /\ out' = Append(out, <<"Error: Failed to install clang-format.">>)
    /\ pc' = "Collecting"
    /\ UNCHANGED <<env, fs, needsFormat, mode, installed, files, idx,
                   error_count, exit, hist, results>>

\* pip returned non-zero: CalledProcessError, the diagnostic, env.Exit(1).
InstallFail ==
    /\ pc = "Installing"
    /\ \E rc \in PipStatuses \ {0} : cmds' = Append(cmds, Cmd("pip", None, rc))
    /\ running' = {}
    /\ out' = Append(out, <<"Error: Failed to install clang-format.">>)
    /\ exit' = 1
    /\ pc' = "Done"
    /\ UNCHANGED <<env, fs, needsFormat, mode, installed, files, idx,
                   error_count, hist, results>>

\* FormatCollect with the `if not files` test left out: the loop runs over
\* the possibly empty list.
FormatCollect_NoEmptyCheck ==
    /\ pc = "Collecting"
    /\ mode = "format"
    /\ \E order \in ScanOrders :
          LET found == get_project_files(env, order)
          IN  /\ files' = found
              /\ out' = Append(out, <<"Formatting", Len(found), "files...">>)
              /\ pc' = IF found = <<>> THEN "Summarizing" ELSE "Processing"
    /\ UNCHANGED <<env, fs, needsFormat, mode, installed, idx, error_count,
                   exit, cmds, running, hist, results>>

\* format_callback: files = get_project_files(env) and the emptiness test.
FormatCollect ==
    /\ pc = "Collecting"
    /\ mode = "format"
    /\ \E order \in ScanOrders :
          LET found == get_project_files(env, order)
          IN  /\ files' = found
              /\ IF found = <<>>
                 THEN /\ out' = Append(out, <<"No source files found to format.">>)
                      /\ pc' = "Done"
                 ELSE /\ out' = Append(out, <<"Formatting", Len(found), "files...">>)
                      /\ pc' = "Processing"
    /\ UNCHANGED <<env, fs, needsFormat, mode, installed, idx, error_count,
                   exit, cmds, running, hist, results>>

\* format_callback's loop: env.Execute starts clang-format -i on the file.
FormatExecute ==
    /\ pc = "Processing"
    /\ mode = "format"
    /\ running' = running \cup {Proc("format", files[idx])}
    /\ pc' = "Invoking"
    /\ UNCHANGED <<env, fs, needsFormat, mode, installed, files, idx,
                   error_count, exit, out, cmds, hist, results>>

\* FormatExecuteReturn with the status inspected: a non-zero status ends the
\* run with env.Exit(1).
FormatExecuteReturn_AbortOnError ==
    /\ pc = "Invoking"
    /\ mode = "format"
    /\ \E rc \in ExecuteStatuses :
          /\ needsFormat' = ContentAfterInPlace(files[idx], rc)
          /\ cmds' = Append(cmds, Cmd("format", files[idx], rc))
          /\ exit' = IF rc # 0 THEN 1 ELSE exit
          /\ pc' = IF rc # 0 THEN "Done"
                   ELSE IF idx < Len(files) THEN "Processing" ELSE "Summarizing"
    /\ running' = running \ {Proc("format", files[idx])}
    /\ idx' = idx + 1
    /\ UNCHANGED <<env, fs, mode, installed, files, error_count, out, hist,
                   results>>

\* FormatExecuteReturn with the -i flag left out of the command: the
\* formatted text goes to the output and the file is not rewritten.
FormatExecuteReturn_NotInPlace ==
    /\ pc = "Invoking"
    /\ mode = "format"
    /\ \E rc \in ExecuteStatuses :
          cmds' = Append(cmds, Cmd("format", files[idx], rc))
    /\ running' = running \ {Proc("format", files[idx])}
    /\ idx' = idx + 1
    /\ pc' = IF idx < Len(files) THEN "Processing" ELSE "Summarizing"
    /\ UNCHANGED <<env, fs, needsFormat, mode, installed, files, error_count,
                   exit, out, hist, results>>

\* env.Execute returns; its status is dropped and the loop goes on.
FormatExecuteReturn ==
    /\ pc = "Invoking"
    /\ mode = "format"
    /\ \E rc \in ExecuteStatuses :
          /\ needsFormat' = ContentAfterInPlace(files[idx], rc)
          /\ cmds' = Append(cmds, Cmd("format", files[idx], rc))
    /\ running' = running \ {Proc("format", files[idx])}
    /\ idx' = idx + 1
    /\ pc' = IF idx < Len(files) THEN "Processing" ELSE "Summarizing"
    /\ UNCHANGED <<env, fs, mode, installed, files, error_count, exit, out,
                   hist, results>>

\* format_callback after the loop.
FormatDone ==
    /\ pc = "Summarizing"
    /\ mode = "format"
    /\ out' = Append(out, <<"Done!">>)
    /\ pc' = "Done"
    /\ UNCHANGED <<env, fs, needsFormat, mode, installed, files, idx,
                   error_count, exit, cmds, running, hist, results>>

\* verify_callback: files = get_project_files(env), the emptiness test and
\* error_count = 0.
VerifyCollect ==
    /\ pc = "Collecting"
    /\ mode = "verify"
    /\ \E order \in ScanOrders :
          LET found == get_project_files(env, order)
          IN  /\ files' = found
              /\ IF found = <<>>
                 THEN /\ out' = Append(out, <<"No source files found to verify.">>)
                      /\ pc' = "Done"
                 ELSE /\ out' = Append(out, <<"Verifying", Len(found), "files...">>)
                      /\ pc' = "Processing"
    /\ error_count' = 0
    /\ UNCHANGED <<env, fs, needsFormat, mode, installed, idx, exit, cmds,
                   running, hist, results>>

\* verify_callback's loop: subprocess.run starts clang-format -n --Werror.
VerifyRun ==
    /\ pc = "Processing"
    /\ mode = "verify"
    /\ running' = running \cup {Proc("check", files[idx])}
    /\ pc' = "Invoking"
    /\ UNCHANGED <<env, fs, needsFormat, mode, installed, files, idx,
                   error_count, exit, out, cmds, hist, results>>

\* VerifyRunReturn failing fast: the first non-zero status ends the run.
VerifyRunReturn_FailFast ==
    /\ pc = "Invoking"
    /\ mode = "verify"
    /\ LET file == files[idx]
           returncode == DryRunStatus(file)
       IN  /\ cmds' = Append(cmds, Cmd("check", file, returncode))
           /\ IF returncode # 0
              THEN /\ out' = Append(out, <<"Formatting Error:", file>>)
                   /\ error_count' = error_count + 1
                   /\ exit' = 1
                   /\ pc' = "Done"
              ELSE /\ out' = Append(out, <<"Clean:", basename(file)>>)
                   /\ error_count' = error_count
                   /\ exit' = exit
                   /\ pc' = IF idx < Len(files) THEN "Processing" ELSE "Summarizing"
    /\ running' = running \ {Proc("check", files[idx])}
    /\ idx' = idx + 1
    /\ UNCHANGED <<env, fs, needsFormat, mode, installed, files, hist, results>>

\* VerifyRunReturn with -i in place of -n: the check rewrites the file.
VerifyRunReturn_InPlace ==
    /\ pc = "Invoking"
    /\ mode = "verify"
    /\ LET file == files[idx]
           returncode == DryRunStatus(file)
       IN  /\ cmds' = Append(cmds, Cmd("check", file, returncode))
           /\ needsFormat' = needsFormat \ {file}
           /\ IF returncode # 0
              THEN /\ out' = Append(out, <<"Formatting Error:", file>>)
                   /\ error_count' = error_count + 1
              ELSE /\ out' = Append(out, <<"Clean:", basename(file)>>)
                   /\ error_count' = error_count
    /\ running' = running \ {Proc("check", files[idx])}
    /\ idx' = idx + 1
    /\ pc' = IF idx < Len(files) THEN "Processing" ELSE "Summarizing"
    /\ UNCHANGED <<env, fs, mode, installed, files, exit, hist, results>>

\* subprocess.run returns: the status line, the count, the next file.
VerifyRunReturn ==
    /\ pc = "Invoking"
    /\ mode = "verify"
    /\ LET file == files[idx]
           returncode == DryRunStatus(file)
       IN  /\ cmds' = Append(cmds, Cmd("check", file, returncode))
           /\ IF returncode # 0
              THEN /\ out' = Append(out, <<"Formatting Error:", file>>)
                   /\ error_count' = error_count + 1
              ELSE /\ out' = Append(out, <<"Clean:", basename(file)>>)
                   /\ error_count' = error_count
    /\ running' = running \ {Proc("check", files[idx])}
    /\ idx' = idx + 1
    /\ pc' = IF idx < Len(files) THEN "Processing" ELSE "Summarizing"
    /\ UNCHANGED <<env, fs, needsFormat, mode, installed, files, exit, hist,
                   results>>

\* verify_callback after the loop: the summary and the exit status.
VerifySummary ==
    /\ pc = "Summarizing"
    /\ mode = "verify"
    /\ IF error_count > 0
       THEN /\ out' = out \o << <<"FAILED:", error_count, "file(s) need formatting.">>,
                                <<"Run 'pio run -t format' to fix them.">> >>
            /\ exit' = 1
       ELSE /\ out' = Append(out, <<"SUCCESS: All files are formatted correctly.">>)
            /\ exit' = exit
    /\ pc' = "Done"
    /\ UNCHANGED <<env, fs, needsFormat, mode, installed, files, idx,
                   error_count, cmds, running, hist, results>>

Next ==
    \/ FormatTarget
    \/ VerifyTarget
    \/ InstallReturn
    \/ InstallFail
    \/ FormatCollect
    \/ FormatExecute
    \/ FormatExecuteReturn
    \/ FormatDone
    \/ VerifyCollect
    \/ VerifyRun
    \/ VerifyRunReturn
    \/ VerifySummary

Spec == Init /\ [][Next]_vars

----------------------------------------------------------------------------
(* Vocabulary of the properties *)

Printed(line) == \E i \in DOMAIN out : out[i] = line

Last(h) == h[Len(h)]

\* The run's installation step failed.
PipFailed == cmds # <<>> /\ cmds[1].kind = "pip" /\ cmds[1].rc # 0

\* The formatter invocations completed so far in this run.
Invocations == SelectSeq(cmds, LAMBDA c : c.kind # "pip")

FormatterRunning == \E p \in running : p.kind # "pip"

\* Invocation i of the run was `kind` on files[i], for every collected file.
EveryFileInvoked(kind) ==
    /\ Len(Invocations) = Len(files)
    /\ \A i \in DOMAIN files :
          Invocations[i].kind = kind /\ Invocations[i].file = files[i]

NoFilesLine ==
    IF mode = "format" THEN <<"No source files found to format.">>
    ELSE <<"No source files found to verify.">>

\* The recognised names of FileNames and RunFileNames, listed one by one.
SourceNames ==
    {"a.c", "b.cpp", "c.h", "d.hpp", "e.cc", "f.cxx", "g.hxx", "h.hh", "a.cpp"}

\* The directories at or below an existing configured root.
UnderRoots ==
    {d \in Dirs :
        \E r \in {env.PROJECT_SRC_DIR, env.PROJECT_INCLUDE_DIR} :
            r \in Dirs /\ Len(r) <= Len(d) /\ SubSeq(d, 1, Len(r)) = r}

ExpectedFiles ==
    {f \in AllFiles :
        SubSeq(f, 1, Len(f) - 1) \in UnderRoots /\ f[Len(f)] \in SourceNames}

NoDuplicates(r) == \A i, j \in DOMAIN r : r[i] = r[j] => i = j

----------------------------------------------------------------------------
(* The claims *)

\* C1: in both targets, when the installation step fails the run is over at
\* once with a non-zero status and the diagnostic printed; nothing has been
\* collected and no formatter command has been started or completed.
C1_InstallFailureAborts ==
    PipFailed =>
        /\ pc = "Done"
        /\ exit # 0
        /\ Printed(<<"Error: Failed to install clang-format.">>)
        /\ ~installed
        /\ files = <<>>
        /\ Invocations = <<>>
        /\ running = {}

\* C1 witness: installation failed in a verify run on a tree in which the
\* collector would have found files, after a format run that failed alike.
C1_Witness ==
    /\ PipFailed
    /\ mode = "verify"
    /\ \E order \in ScanOrders : get_project_files(env, order) # <<>>
    /\ hist # <<>>
    /\ Last(hist).mode = "format"
    /\ ~Last(hist).installed

\* C2: every call of get_project_files returns exactly the recognised files
\* under the existing roots, each exactly once.
C2_ExactlyOnce ==
    \A k \in DOMAIN results :
        /\ {results[k][i] : i \in DOMAIN results[k]} = ExpectedFiles
        /\ NoDuplicates(results[k])

\* C3: a verify run that collected files exits non-zero exactly when some
\* check returned non-zero; with N > 0 non-conforming files the failure
\* message carries N, with N = 0 the run exits 0 with the success message.
C3_VerifyExitAndCount ==
    (pc = "Done" /\ mode = "verify" /\ installed /\ files # <<>>) =>
        LET failing == {Invocations[i].file :
                            i \in {j \in DOMAIN Invocations : Invocations[j].rc # 0}}
            N == Cardinality(failing)
        IN  /\ exit # 0 <=> N > 0
            /\ N > 0 => Printed(<<"FAILED:", N, "file(s) need formatting.">>)
            /\ N = 0 => exit = 0 /\ Printed(<<"SUCCESS: All files are formatted correctly.">>)

\* C4: in a verify run every collected file is checked and gets its status
\* line whatever the earlier files returned, and the non-zero exit is taken
\* only after the last file.
C4_VerifyChecksEveryFile ==
    /\ (mode = "verify" /\ installed /\ pc = "Done") =>
          /\ EveryFileInvoked("check")
          /\ \A i \in DOMAIN files :
                out[2 + i] = IF Invocations[i].rc # 0
                             THEN <<"Formatting Error:", files[i]>>
                             ELSE <<"Clean:", basename(files[i])>>
    /\ (mode = "verify" /\ installed /\ pc # "Done") => exit = 0
    /\ (mode = "verify" /\ pc \in {"Processing", "Invoking"}) =>
          Len(Invocations) = idx - 1

\* C4 witness: a finished verify run whose first check failed and whose
\* second check, of another file, passed.
C4_Witness ==
    /\ mode = "verify"
    /\ pc = "Done"
    /\ Len(files) >= 2
    /\ Invocations[1].rc # 0
    /\ Invocations[2].rc = 0
    /\ exit = 1

\* C5: when the collector finds nothing after a successful installation,
\* the run prints its "no files" message, ends with status 0 and has called
\* nothing but the installer.
C5_NoFiles ==
    (pc = "Done" /\ installed /\ files = <<>>) =>
        /\ exit = 0
        /\ Printed(NoFilesLine)
        /\ cmds = <<Cmd("pip", None, 0)>>
        /\ running = {}

\* C5 witness: a verify run that found nothing in a tree that holds files,
\* after a format run that found nothing either.
C5_Witness ==
    /\ pc = "Done"
    /\ installed
    /\ files = <<>>
    /\ mode = "verify"
    /\ AllFiles # {}
    /\ hist # <<>>
    /\ Last(hist).mode = "format"
    /\ Last(hist).installed

\* C6: a format run whose installation succeeded never leaves status 0, and
\* when it is over the in-place formatter has been invoked on every
\* collected file whatever each invocation returned.
C6_FormatIgnoresStatuses ==
    /\ (mode = "format" /\ installed) => exit = 0
    /\ (mode = "format" /\ installed /\ pc = "Done") => EveryFileInvoked("format")

\* C6 witness: a finished format run whose first invocation failed and whose
\* second succeeded.
C6_Witness ==
    /\ mode = "format"
    /\ pc = "Done"
    /\ Len(files) >= 2
    /\ Invocations[1].rc # 0
    /\ Invocations[2].rc = 0

\* C7: no step of a verify run changes a file's content or the tree, and a
\* verify run only ever starts pip and the dry-run command.
C7_VerifyNeverMutates ==
    /\ [][mode' = "verify" => (needsFormat' = needsFormat /\ fs' = fs)]_vars
    /\ [](mode = "verify" =>
            /\ \A i \in DOMAIN cmds : cmds[i].kind \in {"pip", "check"}
            /\ \A p \in running : p.kind \in {"pip", "check"})

\* C7 witness: a verify run that found a non-conforming file and failed.
C7_Witness ==
    /\ mode = "verify"
    /\ pc = "Done"
    /\ exit = 1
    /\ error_count > 0
    /\ needsFormat # {}

C9_DeterministicOrder ==
    \A j, k \in DOMAIN results : results[j] = results[k]

\* The phase order of a run.
PhaseOrder ==
    {<<"Start", "Installing">>, <<"Done", "Installing">>,
     <<"Installing", "Collecting">>, <<"Installing", "Done">>,
     <<"Collecting", "Done">>, <<"Collecting", "Processing">>,
     <<"Processing", "Invoking">>, <<"Invoking", "Processing">>,
     <<"Invoking", "Summarizing">>, <<"Summarizing", "Done">>}

SummaryLines ==
    {<<"Done!">>, <<"SUCCESS: All files are formatted correctly.">>,
     <<"Run 'pio run -t format' to fix them.">>}

\* C10: a run moves through Start, Installing, Collecting, then Done (nothing
\* found) or Processing, Summarizing, Done; collection needs a completed
\* installation, invocations need a finished collection, they run one at a
\* time in the order of `files`, and the summary and the exit follow the last.
C10_PhaseOrder ==
    /\ [][/\ pc' # pc => <<pc, pc'>> \in PhaseOrder
          /\ (pc = "Collecting" /\ pc' = "Done") => files' = <<>>
          /\ (pc = "Collecting" /\ pc' = "Processing") => files' # <<>>
          /\ files' # files => (pc = "Collecting" \/ pc' = "Installing")]_vars
    /\ [](/\ pc \in {"Collecting", "Processing", "Invoking", "Summarizing"} =>
                installed /\ cmds # <<>> /\ cmds[1] = Cmd("pip", None, 0)
          /\ files # <<>> => installed
          /\ (Invocations # <<>> \/ FormatterRunning) =>
                pc \in {"Processing", "Invoking", "Summarizing", "Done"}
          /\ Cardinality(running) <= 1
          /\ FormatterRunning <=> pc = "Invoking"
          /\ pc \in {"Processing", "Invoking"} =>
                /\ idx \in DOMAIN files
                /\ Len(Invocations) = idx - 1
                /\ \A i \in 1..(idx - 1) : Invocations[i].file = files[i]
          /\ pc = "Invoking" => \A p \in running : p.file = files[idx]
          /\ (\E l \in SummaryLines : Printed(l)) => pc = "Done"
          /\ (pc \in {"Summarizing", "Done"} /\ files # <<>>) =>
                running = {} /\ Len(Invocations) = Len(files))

\* C10 witness: the second invocation of a run is in flight, the first
\* having completed.
C10_Witness ==
    /\ pc = "Invoking"
    /\ idx = 2
    /\ Len(Invocations) = 1
    /\ Cardinality(running) = 1

====
